---- MODULE Spec2Model ----
(***************************************************************************)
(* Model of src/app.py: the Suno API client (SunoMusicGenerator), the      *)
(* input validator, the task-identifier scanner, the status-check routine  *)
(* and the Streamlit script run (main) over st.session_state.              *)
(*                                                                         *)
(* Python strings are kept by what the code observes of them: their        *)
(* length (len), whether strip() leaves nothing (blank) and, through the   *)
(* length, their truth value.  JSON documents are kept by the keys the     *)
(* code looks up.                                                          *)
(***************************************************************************)
EXTENDS Integers, Sequences, FiniteSets, TLC

VARIABLES
    api_key,            \* st.session_state.api_key
    generation_status,  \* st.session_state.generation_status (insertion-ordered dict)
    generated_songs,    \* st.session_state.generated_songs (list)
    http_log,           \* the HTTP requests issued by the last operation, in order
    auto_refresh,       \* the "Auto-refresh (30s)" checkbox of the status tab
    run,                \* what the last script run of main() did
    call,               \* a direct call of one function: arguments, then result
    session_keys,       \* the keys st.session_state holds
    api_reports         \* what the API says of the tasks: "any" answer, or "complete"

vars == <<api_key, generation_status, generated_songs, http_log, auto_refresh, run, call, session_keys, api_reports>>

(***************************************************************************)
(* Python values                                                           *)
(***************************************************************************)
None == "None"

\* truth value of an identifier-like value: None and "" are false
Truthy(v) == v # None /\ v # ""

\* a or b or c ...: the first true operand, else the last operand
RECURSIVE PyOr(_)
PyOr(vals) ==
    IF Len(vals) = 1 THEN Head(vals)
    ELSE IF Truthy(Head(vals)) THEN Head(vals)
    ELSE PyOr(Tail(vals))

\* A str: its len() and whether strip() is empty.
Str(n, b) == [len |-> n, blank |-> b]
EmptyStr == Str(0, TRUE)
StrTruthy(s) == s.len > 0

\* f"{title} - Version {i + 1}": 12 more characters, not blank
VersionSuffixLen == 12
\* f"Generated Song {i + 1}": 16 characters
GeneratedTitleLen == 16

\* title=f"{title} - Version {i + 1}" if title else f"Generated Song {i + 1}"
VersionTitle(title) ==
    IF StrTruthy(title) THEN Str(title.len + VersionSuffixLen, FALSE)
    ELSE Str(GeneratedTitleLen, FALSE)

\* d without key k: payload.pop(k, None)
Pop(d, k) == [x \in (DOMAIN d) \ {k} |-> d[x]]

(***************************************************************************)
(* validate_inputs                                                         *)
(***************************************************************************)
Models == {"V4_5", "V4", "V3_5"}

NonCustomPromptLimit == 400
CustomPromptLimitV4 == 3000
CustomPromptLimitV45 == 5000
StyleLimitV4 == 200
StyleLimitV45 == 1000
TitleLimit == 80

\* a prompt_limit that forgets the larger limit of V4_5
prompt_limit_one_size(custom_mode, model) ==
    IF custom_mode THEN CustomPromptLimitV4 ELSE NonCustomPromptLimit

prompt_limit(custom_mode, model) ==
    IF model \in {"V3_5", "V4"}
    THEN (IF custom_mode THEN CustomPromptLimitV4 ELSE NonCustomPromptLimit)
    ELSE (IF custom_mode THEN CustomPromptLimitV45 ELSE NonCustomPromptLimit)

style_limit(model) ==
    IF model \in {"V3_5", "V4"} THEN StyleLimitV4 ELSE StyleLimitV45

Err(field, kind, limit) == [field |-> field, kind |-> kind, limit |-> limit]

\* errors.append(e) if cond
AppendIf(errors, cond, e) == IF cond THEN Append(errors, e) ELSE errors

prompt_errors(prompt, custom_mode, instrumental, model) ==
    IF custom_mode
    THEN LET e1 == AppendIf(<<>>,
                     ~instrumental /\ prompt.len > prompt_limit(custom_mode, model),
                     Err("prompt", "too_long", prompt_limit(custom_mode, model)))
         IN  AppendIf(e1, ~instrumental /\ prompt.blank,
                     Err("prompt", "required", 0))
    ELSE LET e1 == AppendIf(<<>>, prompt.len > NonCustomPromptLimit,
                     Err("prompt", "too_long", NonCustomPromptLimit))
         IN  AppendIf(e1, prompt.blank, Err("prompt", "required", 0))

\* a style check with two independent ifs in place of if / elif
style_errors_both(style, custom_mode, model) ==
    IF ~custom_mode THEN <<>>
    ELSE AppendIf(AppendIf(<<>>, style.blank, Err("style", "required", 0)),
                  style.len > style_limit(model),
                  Err("style", "too_long", style_limit(model)))

style_errors(style, custom_mode, model) ==
    IF ~custom_mode THEN <<>>
    ELSE IF style.blank THEN <<Err("style", "required", 0)>>
    ELSE IF style.len > style_limit(model)
         THEN <<Err("style", "too_long", style_limit(model))>>
    ELSE <<>>

title_errors(title, custom_mode) ==
    IF ~custom_mode THEN <<>>
    ELSE IF title.blank THEN <<Err("title", "required", 0)>>
    ELSE IF title.len > TitleLimit THEN <<Err("title", "too_long", TitleLimit)>>
    ELSE <<>>

validate_inputs(prompt, style, title, custom_mode, instrumental, model) ==
    LET errors == prompt_errors(prompt, custom_mode, instrumental, model)
                  \o style_errors(style, custom_mode, model)
                  \o title_errors(title, custom_mode)
    IN  [is_valid |-> Len(errors) = 0, errors |-> errors]

(***************************************************************************)
(* JSON documents and HTTP responses                                       *)
(***************************************************************************)
\* An element of a list under "data", or the object under "data".
Item(isdict, task_id, taskId, id, audio_url) ==
    [isdict |-> isdict, task_id |-> task_id, taskId |-> taskId, id |-> id,
     audio_url |-> audio_url]

NoItem == Item(FALSE, None, None, None, None)
IdItem(task_id, taskId, id) == Item(TRUE, task_id, taskId, id, None)
Song(audio_url) == Item(TRUE, None, None, None, audio_url)

\* The value under "data": shape is absent, null, dict, list or scalar.
DataSec(shape, items) == [shape |-> shape, items |-> items]
DataAbsent == DataSec("absent", <<>>)
DataNull == DataSec("null", <<>>)
DataDict(item) == DataSec("dict", <<item>>)
DataList(items) == DataSec("list", items)
DataScalar == DataSec("scalar", <<>>)

\* bool(data.get('data')): None, [] are false
DataTruthy(d) ==
    \/ d.shape \in {"dict", "scalar"}
    \/ d.shape = "list" /\ Len(d.items) > 0

\* A decoded body.  code 0 stands for a missing "code" key.
Json(isdict, task_id, taskId, id, code, msg, data) ==
    [parseable |-> TRUE, isdict |-> isdict, task_id |-> task_id,
     taskId |-> taskId, id |-> id, code |-> code, msg |-> msg, data |-> data]

\* A body response.json() raises on.
BadJson ==
    [parseable |-> FALSE, isdict |-> FALSE, task_id |-> None, taskId |-> None,
     id |-> None, code |-> 0, msg |-> None, data |-> DataAbsent]

\* requests.get / requests.post: raises (exc), or answers with a status and a body
Response(exc, status_code, json) ==
    [exc |-> exc, status_code |-> status_code, json |-> json]
NetworkError == Response(TRUE, 0, BadJson)

(***************************************************************************)
(* SunoMusicGenerator                                                      *)
(***************************************************************************)
DefaultCallbackUrl == "https://httpbin.org/post"

Request(method, url, body) == [method |-> method, url |-> url, body |-> body]

\* a body that keeps the prompt of a custom instrumental request
generate_payload_keeps_prompt(prompt, style, title, custom_mode, instrumental, model, negative_tags) ==
    LET base == [prompt |-> prompt, customMode |-> custom_mode,
                 instrumental |-> instrumental, model |-> model,
                 callBackUrl |-> DefaultCallbackUrl]
        p1 == IF custom_mode
              THEN [style |-> style, title |-> title] @@ base
              ELSE base
    IN  IF StrTruthy(negative_tags)
        THEN [negativeTags |-> negative_tags] @@ p1
        ELSE p1

\* the JSON body generate_music builds
generate_payload(prompt, style, title, custom_mode, instrumental, model, negative_tags) ==
    LET base == [prompt |-> prompt, customMode |-> custom_mode,
                 instrumental |-> instrumental, model |-> model,
                 callBackUrl |-> DefaultCallbackUrl]
        p1 == IF custom_mode
              THEN [style |-> style, title |-> title] @@ base
              ELSE base
        p2 == IF custom_mode /\ instrumental THEN Pop(p1, "prompt") ELSE p1
    IN  IF StrTruthy(negative_tags)
        THEN [negativeTags |-> negative_tags] @@ p2
        ELSE p2

\* a generate_music whose try does not cover response.json()
generate_result_uncaught(response) ==
    IF response.exc
    THEN [success |-> FALSE, error |-> "exception"]
    ELSE [success |-> TRUE, status_code |-> response.status_code,
          data |-> response.json]

\* try: response = requests.post(...); return success with response.json()
\* except Exception: return failure
generate_result(response) ==
    IF response.exc \/ ~response.json.parseable
    THEN [success |-> FALSE, error |-> "exception"]
    ELSE [success |-> TRUE, status_code |-> response.status_code,
          data |-> response.json]

\* generate_music: one POST /generate, whose answer is `response`
generate_music(prompt, style, title, custom_mode, instrumental, model, negative_tags, response) ==
    [ret  |-> generate_result(response),
     reqs |-> <<Request("POST", "/generate",
                  generate_payload(prompt, style, title, custom_mode,
                                   instrumental, model, negative_tags))>>]

\* possible_endpoints of get_generation_status, in list order
StatusEndpoints ==
    << "/details/{id}", "/task/{id}", "/generate/{id}", "/status/{id}",
       "/music/{id}", "/v1/details/{id}", "/api/v1/details/{id}",
       "/api/v1/task/{id}", "/api/v1/status/{id}" >>

\* possible_endpoints of get_music_details, in list order
DetailsEndpoints == << "/details", "/api/v1/details", "/fetch" >>

\* the entry of all_attempts for the response of one endpoint
attempt_entry(endpoint, response) ==
    IF response.exc
    THEN [endpoint |-> endpoint, error |-> "exception", success |-> FALSE]
    ELSE IF response.status_code = 200 /\ response.json.parseable
    THEN [endpoint |-> endpoint, status_code |-> response.status_code,
          success |-> response.status_code = 200, data |-> response.json]
    ELSE IF response.status_code = 200
    THEN [endpoint |-> endpoint, status_code |-> response.status_code,
          success |-> response.status_code = 200,
          error |-> "Invalid JSON response"]
    ELSE [endpoint |-> endpoint, status_code |-> response.status_code,
          success |-> response.status_code = 200]

\* a loop that returns at any 200, decodable or not
status_accepts_any_200(response) ==
    ~response.exc /\ response.status_code = 200

\* does the loop of get_generation_status return at this response?
status_accepts(response) ==
    ~response.exc /\ response.status_code = 200 /\ response.json.parseable

\* the for loop of get_generation_status from endpoint i on; responses[i] is
\* what endpoint i would answer
RECURSIVE status_loop(_, _, _, _)
status_loop(task_id, responses, i, results) ==
    IF i > Len(StatusEndpoints)
    THEN [ret  |-> [success |-> FALSE,
                    error |-> "No valid status endpoint found",
                    all_attempts |-> results],
          reqs |-> [k \in 1..Len(results) |->
                       Request("GET", results[k].endpoint, task_id)]]
    ELSE LET entry == attempt_entry(StatusEndpoints[i], responses[i])
             next == Append(results, entry)
         IN  IF status_accepts(responses[i])
             THEN [ret  |-> [success |-> TRUE,
                             status_code |-> responses[i].status_code,
                             data |-> responses[i].json,
                             endpoint_used |-> StatusEndpoints[i],
                             all_attempts |-> next],
                   reqs |-> [k \in 1..Len(next) |->
                                Request("GET", next[k].endpoint, task_id)]]
             ELSE status_loop(task_id, responses, i + 1, next)

get_generation_status(task_id, responses) ==
    status_loop(task_id, responses, 1, <<>>)

\* does the loop of get_music_details return at this response?  A 200 whose
\* body does not decode raises inside the try and the loop continues.
details_accepts(response) ==
    ~response.exc /\ response.status_code = 200 /\ response.json.parseable

\* the for loop of get_music_details from endpoint i on
RECURSIVE details_loop(_, _, _, _)
details_loop(task_id, responses, i, reqs) ==
    IF i > Len(DetailsEndpoints)
    THEN [ret  |-> [success |-> FALSE,
                    error |-> "No valid details endpoint found"],
          reqs |-> reqs]
    ELSE LET sent == Append(reqs, Request("POST", DetailsEndpoints[i], task_id))
         IN  IF details_accepts(responses[i])
             THEN [ret  |-> [success |-> TRUE,
                             status_code |-> responses[i].status_code,
                             data |-> responses[i].json,
                             endpoint_used |-> DetailsEndpoints[i]],
                   reqs |-> sent]
             ELSE details_loop(task_id, responses, i + 1, sent)

get_music_details(task_id, responses) ==
    details_loop(task_id, responses, 1, <<>>)

(***************************************************************************)
(* Task-identifier extraction of main (the payload field scanner)          *)
(***************************************************************************)
NoException == "none"

\* response_data.get('data', {}).get(key): raises AttributeError unless the
\* value under data is absent or an object
data_get_raises(rd) == rd.data.shape \in {"null", "list", "scalar"}

data_obj(rd) == IF rd.data.shape = "dict" THEN rd.data.items[1] ELSE NoItem

\* the deeper look: first element of a list under data
deeper_task_id(rd, task_id) ==
    IF ~Truthy(task_id) /\ rd.data.shape # "absent"
       /\ rd.data.shape = "list" /\ Len(rd.data.items) > 0
       /\ rd.data.items[1].isdict
    THEN PyOr(<<rd.data.items[1].task_id, rd.data.items[1].taskId,
                rd.data.items[1].id>>)
    ELSE task_id

extract_task_id(rd) ==
    IF ~rd.isdict THEN [raised |-> NoException, task_id |-> None]
    ELSE IF Truthy(PyOr(<<rd.task_id, rd.taskId, rd.id>>))
    THEN [raised |-> NoException,
          task_id |-> deeper_task_id(rd, PyOr(<<rd.task_id, rd.taskId, rd.id>>))]
    ELSE IF data_get_raises(rd)
    THEN [raised |-> "AttributeError", task_id |-> None]
    ELSE [raised |-> NoException,
          task_id |-> deeper_task_id(rd,
              PyOr(<<data_obj(rd).task_id, data_obj(rd).taskId,
                     data_obj(rd).id>>))]

(***************************************************************************)
(* st.session_state.generation_status: a dict, kept in insertion order     *)
(***************************************************************************)
\* the entry stored under song_<key>; the fields kept for display only
\* (timestamp, prompt, style, title, model, full_response) are left out
Entry(key, status, task_id, error_message) ==
    [key |-> key, status |-> status, task_id |-> task_id,
     error_message |-> error_message]

Keys(gs) == {gs[i].key : i \in 1..Len(gs)}

IndexOf(gs, key) == CHOOSE i \in 1..Len(gs) : gs[i].key = key

\* generation_status[key] = entry: an existing key keeps its place
SetEntry(gs, key, entry) ==
    IF key \in Keys(gs)
    THEN [gs EXCEPT ![IndexOf(gs, key)] = entry]
    ELSE Append(gs, entry)

(***************************************************************************)
(* check_and_update_status                                                 *)
(***************************************************************************)
\* the branch taken on a successful get_generation_status result:
\* "raise", "complete_list", "complete_dict", "error" or "none"
status_branch(data) ==
    IF ~data.isdict THEN "raise"
    ELSE IF data.code = 200 /\ DataTruthy(data.data)
    THEN IF data.data.shape = "list" /\ Len(data.data.items) > 0
         THEN IF ~data.data.items[1].isdict THEN "raise"
              ELSE IF Truthy(data.data.items[1].audio_url) THEN "complete_list"
              ELSE "none"
         ELSE IF data.data.shape = "dict"
                 /\ Truthy(data.data.items[1].audio_url)
         THEN "complete_dict"
         ELSE "none"
    ELSE IF data.code # 200 THEN "error"
    ELSE "none"

\* a fallback that treats its payload as the GET path does, error branch included
details_branch_as_status(data) == status_branch(data)

\* the branch taken on a successful get_music_details result: lists only,
\* and no error branch
details_branch(data) ==
    IF ~data.isdict THEN "raise"
    ELSE IF data.code = 200 /\ DataTruthy(data.data)
            /\ data.data.shape = "list" /\ Len(data.data.items) > 0
    THEN IF ~data.data.items[1].isdict THEN "raise"
         ELSE IF Truthy(data.data.items[1].audio_url) THEN "complete_list"
         ELSE "none"
    ELSE "none"

\* the songs a complete branch adds to generated_songs
songs_added(branch, data) ==
    IF branch = "complete_list" THEN data.data.items
    ELSE IF branch = "complete_dict" THEN <<data.data.items[1]>>
    ELSE <<>>

\* data.get('msg', 'Unknown error')
error_message_of(data) == IF data.msg = None THEN "Unknown error" ELSE data.msg

\* the session after the branch was applied to entry i
apply_branch(s, i, branch, data) ==
    IF branch = "raise" THEN [s EXCEPT !.raised = "AttributeError"]
    ELSE IF branch \in {"complete_list", "complete_dict"}
    THEN [s EXCEPT !.gs[i].status = "complete",
                   !.songs = s.songs \o songs_added(branch, data),
                   !.updated = TRUE]
    ELSE IF branch = "error"
    THEN [s EXCEPT !.gs[i].status = "error",
                   !.gs[i].error_message = error_message_of(data),
                   !.updated = TRUE]
    ELSE s

\* the session with the requests of a call added to the log of the run
logged(s, reqs) == [s EXCEPT !.log = s.log \o reqs]

\* "if details_result['success']:" on the result of get_music_details
after_details(s, i, details) ==
    IF details.ret.success
    THEN apply_branch(logged(s, details.reqs), i,
                      details_branch(details.ret.data), details.ret.data)
    ELSE logged(s, details.reqs)

\* a check that asks the POST paths whatever the GET probes gave
after_status_always_details(s, i, views, result) ==
    after_details(
        IF result.ret.success
        THEN apply_branch(logged(s, result.reqs), i,
                          status_branch(result.ret.data), result.ret.data)
        ELSE logged(s, result.reqs),
        i, get_music_details(s.gs[i].task_id, views[s.gs[i].task_id].post))

\* "if result['success']: ... elif not result['success']:" on the result of
\* get_generation_status
after_status(s, i, views, result) ==
    IF result.ret.success
    THEN apply_branch(logged(s, result.reqs), i,
                      status_branch(result.ret.data), result.ret.data)
    ELSE after_details(logged(s, result.reqs), i,
             get_music_details(s.gs[i].task_id, views[s.gs[i].task_id].post))

\* a loop that asks for every entry with a task id, whatever its status
check_entry_any_status(s, i, views) ==
    IF s.raised # NoException THEN s
    ELSE IF ~Truthy(s.gs[i].task_id) THEN s
    ELSE after_status(s, i, views,
             get_generation_status(s.gs[i].task_id, views[s.gs[i].task_id].get))

\* one iteration of the for loop, on entry i; views[task_id] is what the
\* API answers for that task: .get on the 9 GET paths, .post on the 3 POST paths
check_entry(s, i, views) ==
    IF s.raised # NoException THEN s
    ELSE IF s.gs[i].status # "processing" \/ ~Truthy(s.gs[i].task_id) THEN s
    ELSE after_status(s, i, views,
             get_generation_status(s.gs[i].task_id, views[s.gs[i].task_id].get))

RECURSIVE check_loop(_, _, _)
check_loop(s, i, views) ==
    IF i > Len(s.gs) THEN s
    ELSE check_loop(check_entry(s, i, views), i + 1, views)

\* check_and_update_status(): s.updated is its return value
check_and_update_status(s, views) ==
    IF s.api_key = "" THEN [s EXCEPT !.updated = FALSE]
    ELSE check_loop([s EXCEPT !.updated = FALSE], 1, views)

(***************************************************************************)
(* main: one script run                                                    *)
(***************************************************************************)
\* the functions app.py defines at module level
ModuleFunctions ==
    {"SunoMusicGenerator", "initialize_session_state", "validate_inputs",
     "check_and_update_status", "main"}

Form(prompt, style, title, custom_mode, instrumental, model, negative_tags) ==
    [prompt |-> prompt, style |-> style, title |-> title,
     custom_mode |-> custom_mode, instrumental |-> instrumental,
     model |-> model, negative_tags |-> negative_tags]

validate_form(form) ==
    validate_inputs(form.prompt, form.style, form.title, form.custom_mode,
                    form.instrumental, form.model)

\* generation_key = f"song_{len(generated_songs) + len(songs_generated)}"
generation_key(s) == Len(s.songs) + s.n_generated

\* the entry stored for a generation that started: lines 528-544, unless the
\* extraction x raised
store_task(s, x) ==
    IF x.raised # NoException
    THEN [s EXCEPT !.raised = x.raised]
    ELSE [s EXCEPT !.gs = SetEntry(s.gs, generation_key(s),
                              Entry(generation_key(s), "processing",
                                    x.task_id, None))]

\* songs_generated.append(result['data'])
counted(s) == [s EXCEPT !.n_generated = s.n_generated + 1]

\* "if result['success'] and result['status_code'] == 200: ... else:" on
\* the result g of generate_music
after_generate(s, g) ==
    IF g.ret.success /\ g.ret.status_code = 200
    THEN store_task(counted(logged(s, g.reqs)), extract_task_id(g.ret.data))
    ELSE logged(s, g.reqs)

\* one iteration of "for i in range(2)" of the form handler; response is the
\* answer to its POST /generate
submit_iteration(s, form, response) ==
    IF s.raised # NoException THEN s
    ELSE after_generate(s,
             generate_music(form.prompt, form.style, VersionTitle(form.title),
                            form.custom_mode, form.instrumental, form.model,
                            form.negative_tags, response))

\* "if generate_button:" of the first tab
submit_form(s, form, responses) ==
    IF ~validate_form(form).is_valid THEN [s EXCEPT !.valid = FALSE]
    ELSE submit_iteration(
             submit_iteration([s EXCEPT !.valid = TRUE], form, responses[1]),
             form, responses[2])

\* "if updated: st.rerun()": st.rerun() ends the run and asks for another one
rerun_if_updated(s) ==
    IF s.raised = NoException /\ s.updated THEN [s EXCEPT !.rerun = TRUE] ELSE s

\* "if auto_refresh:": time.sleep(30), then the check
auto_check(s, auto, views) ==
    IF s.raised # NoException \/ s.rerun \/ ~auto THEN s
    ELSE rerun_if_updated(check_and_update_status(s, views))

\* st.button(...) of the button `name`: true only in the script run that the
\* click on that button started
Clicked(button, name) == button = name

\* the branch the manual check takes on the payload it found: "raise",
\* "list", "dict" or "none"
manual_branch(data) ==
    IF ~data.isdict THEN "raise"
    ELSE IF data.code = 200 /\ DataTruthy(data.data)
    THEN IF data.data.shape = "list"
         THEN IF \E k \in 1..Len(data.data.items) : ~data.data.items[k].isdict
              THEN "raise"
              ELSE "list"
         ELSE IF data.data.shape = "dict"
                 /\ Truthy(data.data.items[1].audio_url)
         THEN "dict"
         ELSE "none"
    ELSE "none"

HasAudio(song) == Truthy(song.audio_url)

\* completed_songs = [song for song in song_data if song.get('audio_url')],
\* or the one song under data
completed_songs(branch, data) ==
    IF branch = "list" THEN SelectSeq(data.data.items, HasAudio)
    ELSE IF branch = "dict" THEN <<data.data.items[1]>>
    ELSE <<>>

\* "if st.button('Add to Generated Songs'): extend; st.rerun()", drawn inside
\* the block of the "Check Manual ID" button; found is what the button on the
\* page offers to add
add_button(s, button, songs) ==
    IF songs = <<>> THEN s
    ELSE IF Clicked(button, "add")
    THEN [s EXCEPT !.songs = s.songs \o songs, !.rerun = TRUE]
    ELSE [s EXCEPT !.found = songs]

\* "if result['success']:" of the manual check, on the payload of the result
manual_found(s, button, branch, data) ==
    IF branch = "raise" THEN [s EXCEPT !.raised = "AttributeError"]
    ELSE add_button(s, button, completed_songs(branch, data))

manual_result(s, button, result) ==
    IF result.ret.success
    THEN manual_found(logged(s, result.reqs), button,
                      manual_branch(result.ret.data), result.ret.data)
    ELSE logged(s, result.reqs)

\* "if st.button('Check Manual ID'):"; probe.task_id is the text of the input
\* (stripped), probe.get what the GET paths answer
manual_check(s, button, probe) ==
    IF s.raised # NoException \/ s.rerun THEN s
    ELSE IF ~Clicked(button, "manual") THEN s
    ELSE IF probe.task_id = "" \/ s.api_key = "" THEN s
    ELSE manual_result(s, button,
                       get_generation_status(probe.task_id, probe.get))

\* "if st.button('Test All Endpoints'):" probes for the task of the first entry
test_endpoints(s, button, probe) ==
    IF s.raised # NoException \/ s.rerun THEN s
    ELSE IF ~Clicked(button, "test") THEN s
    ELSE IF s.gs = <<>> \/ ~Truthy(s.gs[1].task_id) THEN s
    ELSE logged(s, get_generation_status(s.gs[1].task_id, probe.get).reqs)

\* the rows of the entries: "if st.button(f'Check {song_key}'):" of row
\* probe.index probes for the task of that entry
song_rows(s, button, probe) ==
    IF s.raised # NoException \/ s.rerun THEN s
    ELSE IF ~Clicked(button, "check_song") THEN s
    ELSE IF probe.index \notin 1..Len(s.gs) THEN s
    ELSE IF ~Truthy(s.gs[probe.index].task_id) \/ s.api_key = "" THEN s
    ELSE logged(s, get_generation_status(s.gs[probe.index].task_id,
                                         probe.get).reqs)

\* the status tab: the "Refresh Status" button, the auto-refresh box, the
\* debug expander and the rows of the entries
status_tab(s, button, auto, views1, views2, probe) ==
    IF s.gs = <<>> THEN s
    ELSE song_rows(
           test_endpoints(
             manual_check(
               auto_check(
                 rerun_if_updated(IF Clicked(button, "refresh")
                                  THEN check_and_update_status(s, views1)
                                  ELSE [s EXCEPT !.updated = FALSE]),
                 auto, views2),
               button, probe),
             button, probe),
           button, probe)

\* the songs tab: display_song_card(song, i) for every song
songs_tab(s) ==
    IF s.songs = <<>> THEN s
    ELSE IF "display_song_card" \notin ModuleFunctions
    THEN [s EXCEPT !.raised = "NameError"]
    ELSE [s EXCEPT !.cards = Len(s.songs)]

\* the keys initialize_session_state looks for
SessionKeys == {"generated_songs", "generation_status", "api_key"}

\* the session at the start of a run
Session ==
    [api_key |-> api_key, gs |-> generation_status, songs |-> generated_songs,
     log |-> <<>>, raised |-> NoException, rerun |-> FALSE, updated |-> FALSE,
     valid |-> FALSE, n_generated |-> 0, cards |-> 0, keys |-> session_keys,
     found |-> <<>>]

\* an initialisation that assigns the three values on every run
initialize_session_state_always(s) ==
    [s EXCEPT !.songs = <<>>, !.gs = <<>>, !.api_key = "",
              !.keys = s.keys \cup SessionKeys]

\* "if key not in st.session_state: st.session_state.key = <empty>", three times
initialize_session_state(s) ==
    [s EXCEPT !.songs = IF "generated_songs" \in s.keys THEN s.songs ELSE <<>>,
              !.gs = IF "generation_status" \in s.keys THEN s.gs ELSE <<>>,
              !.api_key = IF "api_key" \in s.keys THEN s.api_key ELSE "",
              !.keys = s.keys \cup SessionKeys]

\* the generation tab: the form handler runs when its button was clicked
first_tab(s, button, form, responses) ==
    IF Clicked(button, "generate") THEN submit_form(s, form, responses) ELSE s

\* the third tab, reached unless the run has ended
after_status_tab(s) ==
    IF s.raised # NoException \/ s.rerun THEN s ELSE songs_tab(s)

\* the second tab, reached unless the first raised
after_first_tab(s, button, auto, views1, views2, probe) ==
    IF s.raised # NoException THEN s
    ELSE after_status_tab(status_tab(s, button, auto, views1, views2, probe))

\* "if not st.session_state.api_key: return", then the tabs
after_sidebar(s, button, form, auto, responses, views1, views2, probe) ==
    IF s.api_key = "" THEN s
    ELSE after_first_tab(first_tab(s, button, form, responses), button, auto,
                         views1, views2, probe)

\* "if api_key: st.session_state.api_key = api_key" of the sidebar
sidebar(s, key_input) ==
    IF key_input # "" THEN [s EXCEPT !.api_key = key_input] ELSE s

\* main(): key_input is the sidebar text input, button the button clicked
main(s, key_input, button, form, auto, responses, views1, views2, probe) ==
    after_sidebar(sidebar(initialize_session_state(s), key_input),
                  button, form, auto, responses, views1, views2, probe)

(***************************************************************************)
(* What the API answers                                                    *)
(***************************************************************************)
TaskIds == {"t1", "t2"}

Envelope(code, msg, data) == Json(TRUE, None, None, None, code, msg, data)

\* status bodies: running, finished in the shapes the code looks for, failed
PendingBody == Envelope(200, "success", DataNull)
PartialListBody == Envelope(200, "success", DataList(<<Song("u"), Song("")>>))
CompleteDictBody == Envelope(200, "success", DataDict(Song("u")))
FailedBody == Envelope(500, "failed", DataNull)

StatusBodies == {PendingBody, PartialListBody, CompleteDictBody, FailedBody}

\* the three ways a request can fail
Failures ==
    <<Response(FALSE, 404, BadJson), NetworkError, Response(FALSE, 200, BadJson)>>

\* n endpoints of which only endpoint `hit` (0: none) answers 200 with body
ProbeVector(n, hit, body) ==
    [i \in 1..n |-> IF i = hit THEN Response(FALSE, 200, body)
                    ELSE Failures[(i % 3) + 1]]

View(get_hit, post_hit, body) ==
    [get  |-> ProbeVector(Len(StatusEndpoints), get_hit, body),
     post |-> ProbeVector(Len(DetailsEndpoints), post_hit, body)]

SessionGetHit == 2
SessionPostHit == 2

SessionViews ==
    {View(SessionGetHit, 0, b) : b \in StatusBodies}
    \cup {View(0, SessionPostHit, PartialListBody), View(0, 0, PendingBody)}

NoViews == [t \in TaskIds |-> View(0, 0, PendingBody)]

\* answers to POST /generate: the task was started as t, the envelope names
\* no task, the envelope reports an error with "data": null, the server fails
Started(t) == Response(FALSE, 200, Envelope(200, "success", DataDict(IdItem(None, t, None))))
Unnamed == Response(FALSE, 200, Envelope(200, "success", DataDict(IdItem(None, None, None))))
Refused == Response(FALSE, 200, Envelope(401, "unauthorized", DataNull))
ServerError == Response(FALSE, 500, Envelope(500, "failed", DataNull))

FirstResponses == {Started("t1"), Refused, ServerError}
SecondResponses == {Started("t2"), Unnamed, ServerError}

NoResponses == <<NetworkError, NetworkError>>

\* the forms a user submits in the session
SessionForms ==
    { Form(Str(CustomPromptLimitV4, FALSE), Str(StyleLimitV4, FALSE),
           Str(TitleLimit, FALSE), TRUE, FALSE, "V4", EmptyStr),
      Form(Str(CustomPromptLimitV4 + 1, FALSE), Str(StyleLimitV4, FALSE),
           Str(TitleLimit, FALSE), TRUE, FALSE, "V4", EmptyStr),
      Form(Str(NonCustomPromptLimit, FALSE), EmptyStr, EmptyStr, FALSE, FALSE,
           "V4_5", Str(1, FALSE)) }

NoForm == Form(EmptyStr, EmptyStr, EmptyStr, FALSE, FALSE, "V4", EmptyStr)

\* the answers to the two POSTs of a submission: a form that fails validation
\* sends none
SubmitResponses(form) ==
    IF validate_form(form).is_valid
    THEN {<<r1, r2>> : r1 \in FirstResponses, r2 \in SecondResponses}
    ELSE {NoResponses}

(***************************************************************************)
(* The session                                                             *)
(***************************************************************************)
MaxSongs == 2

\* the session is followed while generation_status holds at most this many
\* entries
MaxEntries == MaxSongs + 1

NoCall == [fn |-> "none", done |-> FALSE]

\* what a finished run leaves to look at: the button that started it, whether
\* the form validated, the exception that ended it, the song cards drawn,
\* whether it asked for a rerun, the songs its "Add to Generated Songs" button
\* offers and len(songs_generated) of its form handler
Run(button, s) ==
    [ran |-> TRUE, button |-> button, valid |-> s.valid, raised |-> s.raised,
     cards |-> s.cards, rerun |-> s.rerun, found |-> s.found,
     generated |-> s.n_generated]

\* no run in progress or to look at; a requested rerun is still owed
Waiting(rerun) ==
    [ran |-> FALSE, button |-> "none", valid |-> FALSE, raised |-> NoException,
     cards |-> 0, rerun |-> rerun, found |-> <<>>, generated |-> 0]

\* a new browser session: st.session_state holds nothing yet
Init ==
    /\ api_key = ""
    /\ generation_status = <<>>
    /\ generated_songs = <<>>
    /\ http_log = <<>>
    /\ auto_refresh = FALSE
    /\ run = Waiting(FALSE)
    /\ call = NoCall
    /\ session_keys = {}
    /\ api_reports = "any"

\* the session after a run that ended in s
Finish(button, s, auto) ==
    /\ Len(s.songs) <= MaxSongs
    /\ Len(s.gs) <= MaxEntries
    /\ api_key' = s.api_key
    /\ generation_status' = s.gs
    /\ generated_songs' = s.songs
    /\ http_log' = s.log
    /\ auto_refresh' = auto
    /\ run' = Run(button, s)
    /\ call' = call
    /\ session_keys' = s.keys
    /\ api_reports' = api_reports

\* the answers the status checks of a run may get
ActiveTasks(gs) ==
    {gs[i].task_id : i \in {j \in 1..Len(gs) : gs[j].status = "processing"}}
    \cap TaskIds

\* what the API answers for a task now: anything, or that it is complete
AnswersNow ==
    IF api_reports = "complete"
    THEN {View(SessionGetHit, 0, CompleteDictBody)}
    ELSE SessionViews

\* the answers the status checks of a run may get: one view for every task
\* a processing entry names
ViewChoices(needed, gs) ==
    IF needed
    THEN {[t \in TaskIds |-> IF t \in ActiveTasks(gs) THEN f[t]
                              ELSE View(0, 0, PendingBody)] :
             f \in [ActiveTasks(gs) -> AnswersNow]}
    ELSE {NoViews}

\* what the GET paths answer to a probe of the debug section
ProbeChoices == {v.get : v \in AnswersNow}

\* the task ids the user types into "Enter Task ID"
ManualIds == {"t1"}

\* what they answer to "Test All Endpoints" and to the "Check" button of a
\* row, which only display the answer: some path answers, or none does
DisplayProbes ==
    {View(SessionGetHit, 0, PendingBody).get, View(0, 0, PendingBody).get}

\* the input and the row of the debug section: a task id typed into "Enter
\* Task ID", the row whose "Check" button is meant, what the GET paths answer
Probe(task_id, index, get) == [task_id |-> task_id, index |-> index, get |-> get]
NoProbe == Probe("", 0, View(0, 0, PendingBody).get)

\* does the "Refresh Status" check of this run end without a change, so that
\* the auto-refresh check runs after it?
second_check_runs(views1) ==
    /\ auto_refresh
    /\ LET r == check_and_update_status(Session, views1)
       IN  r.raised = NoException /\ ~r.updated

\* the user types the API key into the sidebar
SetApiKey ==
    /\ ~run.ran /\ ~run.rerun
    /\ \E views \in ViewChoices(auto_refresh, generation_status) :
       \E s \in {main(Session, "key", "none", NoForm, auto_refresh,
                      NoResponses, NoViews, views, NoProbe)} :
          Finish("none", s, auto_refresh)

\* a run no button started (another widget changed)
RunPlain ==
    /\ ~run.ran /\ ~run.rerun
    /\ \E views \in ViewChoices(auto_refresh, generation_status) :
       \E s \in {main(Session, api_key, "none", NoForm, auto_refresh,
                      NoResponses, NoViews, views, NoProbe)} :
          Finish("none", s, auto_refresh)

\* the run st.rerun() asked for
RunRerun ==
    /\ ~run.ran /\ run.rerun
    /\ \E views \in ViewChoices(auto_refresh, generation_status) :
       \E s \in {main(Session, api_key, "none", NoForm, auto_refresh,
                      NoResponses, NoViews, views, NoProbe)} :
          Finish("none", s, auto_refresh)

\* the user submits the generation form
RunSubmit ==
    /\ ~run.ran /\ ~run.rerun
    /\ api_key # ""
    /\ \E form \in SessionForms :
       \E responses \in SubmitResponses(form) :
       \E views \in ViewChoices(auto_refresh,
                     first_tab(Session, "generate", form, responses).gs) :
       \E s \in {main(Session, api_key, "generate", form, auto_refresh,
                      responses, NoViews, views, NoProbe)} :
          Finish("generate", s, auto_refresh)

\* the user clicks "Refresh Status"
RunRefresh ==
    /\ ~run.ran /\ ~run.rerun
    /\ api_key # ""
    /\ generation_status # <<>>
    /\ \E views1 \in ViewChoices(TRUE, generation_status) :
       \E views2 \in ViewChoices(second_check_runs(views1), generation_status) :
       \E s \in {main(Session, api_key, "refresh", NoForm, auto_refresh,
                      NoResponses, views1, views2, NoProbe)} :
          Finish("refresh", s, auto_refresh)

\* the user ticks or unticks "Auto-refresh (30s)"
ToggleAutoRefresh ==
    /\ ~run.ran /\ ~run.rerun
    /\ api_key # ""
    /\ generation_status # <<>>
    /\ \E views \in ViewChoices(~auto_refresh, generation_status) :
       \E s \in {main(Session, api_key, "none", NoForm, ~auto_refresh,
                      NoResponses, NoViews, views, NoProbe)} :
          Finish("none", s, ~auto_refresh)

\* the user types a task id and clicks "Check Manual ID"
RunManualCheck ==
    /\ ~run.ran /\ ~run.rerun
    /\ api_key # ""
    /\ generation_status # <<>>
    /\ \E t \in ManualIds, g \in ProbeChoices :
       \E views \in ViewChoices(auto_refresh, generation_status) :
       \E s \in {main(Session, api_key, "manual", NoForm, auto_refresh,
                      NoResponses, NoViews, views, Probe(t, 0, g))} :
          Finish("manual", s, auto_refresh)

\* the user clicks the "Add to Generated Songs" button the last run drew
RunAddManual ==
    /\ ~run.ran /\ ~run.rerun
    /\ run.found # <<>>
    /\ \E views \in ViewChoices(auto_refresh, generation_status) :
       \E s \in {main(Session, api_key, "add", NoForm, auto_refresh,
                      NoResponses, NoViews, views, NoProbe)} :
          Finish("add", s, auto_refresh)

\* the user clicks "Test All Endpoints"
RunTestEndpoints ==
    /\ ~run.ran /\ ~run.rerun
    /\ api_key # ""
    /\ generation_status # <<>>
    /\ \E g \in DisplayProbes :
       \E views \in ViewChoices(auto_refresh, generation_status) :
       \E s \in {main(Session, api_key, "test", NoForm, auto_refresh,
                      NoResponses, NoViews, views, Probe("", 0, g))} :
          Finish("test", s, auto_refresh)

\* the user clicks the "Check song_N" button of a row
RunCheckSong ==
    /\ ~run.ran /\ ~run.rerun
    /\ api_key # ""
    /\ \E i \in 1..Len(generation_status), g \in DisplayProbes :
       \E views \in ViewChoices(auto_refresh, generation_status) :
       \E s \in {main(Session, api_key, "check_song", NoForm, auto_refresh,
                      NoResponses, NoViews, views, Probe("", i, g))} :
          Finish("check_song", s, auto_refresh)

\* the run is over: the page waits for the next interaction (or starts the
\* rerun that was asked for); the requests of the run are history
EndRun ==
    /\ run.ran
    /\ run' = [Waiting(run.rerun) EXCEPT !.found = run.found]
    /\ http_log' = <<>>
    /\ UNCHANGED <<api_key, generation_status, generated_songs, auto_refresh,
                   call, session_keys, api_reports>>

Next ==
    \/ EndRun
    \/ SetApiKey
    \/ RunPlain
    \/ RunRerun
    \/ RunSubmit
    \/ RunRefresh
    \/ ToggleAutoRefresh
    \/ RunManualCheck
    \/ RunAddManual
    \/ RunTestEndpoints
    \/ RunCheckSong

Spec == Init /\ [][Next]_vars

(***************************************************************************)
(* The session left to the auto-refresh: the user sets it up, the tasks    *)
(* finish at the API, and only what Streamlit does by itself is sure to    *)
(* happen: a script run that started comes to its end.  A click, a typed   *)
(* key or a ticked box may never come.                                     *)
(***************************************************************************)
\* the tasks finish: from now on the API reports them complete
ApiFinishes ==
    /\ ~run.ran
    /\ api_reports = "any"
    /\ api_reports' = "complete"
    /\ UNCHANGED <<api_key, generation_status, generated_songs, http_log,
                   auto_refresh, run, call, session_keys>>

NextAuto ==
    \/ EndRun
    \/ SetApiKey
    \/ RunRerun
    \/ RunSubmit
    \/ ToggleAutoRefresh
    \/ ApiFinishes

SpecAuto == Init /\ [][NextAuto]_vars /\ WF_vars(EndRun)

(***************************************************************************)
(* Direct calls of the functions, on inputs drawn from bounded sets        *)
(***************************************************************************)
\* string lengths tried: 0 and those within Margin of a limit
Margin == 1

LengthsNear(limits) ==
    {0} \cup {l + d : l \in limits, d \in (0 - Margin)..Margin}

\* the strings of these lengths: blank ones (only white space) and others
Strings(lengths) ==
    {Str(n, TRUE) : n \in lengths} \cup {Str(n, FALSE) : n \in lengths \ {0}}

ValidateForms ==
    { Form(p, s, t, c, i, m, EmptyStr) :
        p \in Strings(LengthsNear({NonCustomPromptLimit, CustomPromptLimitV4,
                                   CustomPromptLimitV45})),
        s \in Strings(LengthsNear({StyleLimitV4, StyleLimitV45})),
        t \in Strings(LengthsNear({TitleLimit})),
        c \in BOOLEAN, i \in BOOLEAN, m \in Models }

GenerateForms ==
    { Form(p, Str(StyleLimitV4, FALSE), Str(TitleLimit, FALSE), c, i, "V4", n) :
        p \in {EmptyStr, Str(NonCustomPromptLimit, FALSE)},
        c \in BOOLEAN, i \in BOOLEAN,
        n \in {EmptyStr, Str(1, FALSE), Str(1, TRUE)} }

\* what one request can meet: a network error, or a status with a body that
\* decodes or does not
ResponseKinds ==
    <<NetworkError, Response(FALSE, 200, BadJson),
      Response(FALSE, 500, Envelope(500, "failed", DataNull)),
      Response(FALSE, 404, BadJson)>>

\* the body endpoint i answers with when it answers 200: it names the endpoint
BodyOf(endpoints, i) == Envelope(200, endpoints[i], DataNull)

\* the endpoints in `ok` answer 200 with a decodable body; the others fail in
\* the ways of ResponseKinds, in turn from `shift` on
Answers(endpoints, ok, shift) ==
    [i \in 1..Len(endpoints) |->
        IF i \in ok THEN Response(FALSE, 200, BodyOf(endpoints, i))
        ELSE ResponseKinds[((i + shift) % Len(ResponseKinds)) + 1]]

AnswerSets(endpoints) ==
    {Answers(endpoints, ok, shift) :
        ok \in SUBSET (1..Len(endpoints)), shift \in 1..Len(ResponseKinds)}

GenerateAnswers ==
    {ResponseKinds[k] : k \in 1..Len(ResponseKinds)}
    \cup {Started("t1"), Refused, ServerError}

\* bodies of a generate response: every key holds nothing, "" or its own value
IdItems == {IdItem(a, b, c) : a \in {None, "", "d"}, b \in {None, "", "e"}, c \in {None, "", "f"}}

DataSections ==
    {DataAbsent, DataNull, DataScalar, DataList(<<>>), DataList(<<NoItem>>)}
    \cup {DataDict(x) : x \in IdItems}
    \cup {DataList(<<x>>) : x \in IdItems}

ExtractBodies ==
    {Json(TRUE, a, b, c, 200, "success", d) :
        a \in {None, "", "a"}, b \in {None, "", "b"}, c \in {None, "", "c"},
        d \in DataSections}
    \cup {Json(FALSE, None, None, None, 0, None, DataAbsent)}

NoRet == "none"

\* bodies a status or details endpoint may answer with: the four of the
\* session, an error without msg, an envelope without code, finished answers
\* without an audio URL, data that is a string, and bodies that are no object
\* or hold a list of strings
FailedNoMsgBody == Envelope(500, None, DataNull)
NoCodeBody == Envelope(0, "hello", DataAbsent)
NoAudioListBody == Envelope(200, "success", DataList(<<Song(""), Song("u")>>))
NoAudioDictBody == Envelope(200, "success", DataDict(Song(None)))
EmptyListBody == Envelope(200, "success", DataList(<<>>))
ScalarDataBody == Envelope(200, "success", DataScalar)
ListBody == Json(FALSE, None, None, None, 0, None, DataAbsent)
StringListBody == Envelope(200, "success", DataList(<<NoItem>>))

CheckBodies ==
    StatusBodies
    \cup {FailedNoMsgBody, NoCodeBody, NoAudioListBody, NoAudioDictBody,
          EmptyListBody, ScalarDataBody, ListBody, StringListBody}

\* what the API answers for one task: a GET path answers (the first or the
\* last one) and a POST path would answer too, or no GET path answers and a
\* POST path (none, the first, the last) does
CheckViews ==
    {[get  |-> ProbeVector(Len(StatusEndpoints), gh, b),
      post |-> ProbeVector(Len(DetailsEndpoints), 1, PartialListBody)] :
        gh \in {1, Len(StatusEndpoints)}, b \in CheckBodies}
    \cup {[get  |-> ProbeVector(Len(StatusEndpoints), 0, PendingBody),
           post |-> ProbeVector(Len(DetailsEndpoints), ph, b)] :
             ph \in {0, 1, Len(DetailsEndpoints)}, b \in CheckBodies}

\* entries of generation_status as main and check_and_update_status leave them
CheckEntries(key) ==
    {Entry(key, "processing", t, None) : t \in {None, "", "t1", "t2"}}
    \cup {Entry(key, "complete", t, None) : t \in {"t1", "t2"}}
    \cup {Entry(key, "error", t, "failed") : t \in {"t1", "t2"}}

\* the sessions check_and_update_status is called in: one entry under every
\* view of its task, or two entries under the views of the session
CheckSessions ==
    {[gs |-> <<e>>, views |-> [t \in TaskIds |-> v]] :
        e \in CheckEntries(1), v \in CheckViews}
    \cup {[gs |-> <<e1, e2>>, views |-> f] :
             e1 \in CheckEntries(1), e2 \in CheckEntries(2),
             f \in [TaskIds -> SessionViews]}

\* a call of check_and_update_status() in a session that holds entries
InitCheck ==
    /\ api_key \in {"", "key"}
    /\ generated_songs \in {<<>>, <<Song("u")>>}
    /\ http_log = <<>>
    /\ auto_refresh = FALSE
    /\ run = Waiting(FALSE)
    /\ session_keys = SessionKeys
    /\ api_reports = "any"
    /\ \E c \in CheckSessions :
          /\ generation_status = c.gs
          /\ call = [fn |-> "check_and_update_status", done |-> FALSE,
                     gs |-> c.gs, songs |-> generated_songs,
                     views |-> c.views, ret |-> NoRet]

\* a call of one of the functions that do not touch the session
InitFunction ==
    /\ api_key = ""
    /\ generation_status = <<>>
    /\ generated_songs = <<>>
    /\ http_log = <<>>
    /\ auto_refresh = FALSE
    /\ run = Waiting(FALSE)
    /\ session_keys = SessionKeys
    /\ api_reports = "any"
    /\ \/ \E f \in ValidateForms :
             call = [fn |-> "validate_inputs", done |-> FALSE, form |-> f,
                     ret |-> NoRet]
       \/ \E f \in GenerateForms, r \in GenerateAnswers :
             call = [fn |-> "generate_music", done |-> FALSE, form |-> f,
                     response |-> r, ret |-> NoRet]
       \/ \E t \in TaskIds, r \in AnswerSets(StatusEndpoints) :
             call = [fn |-> "get_generation_status", done |-> FALSE,
                     task_id |-> t, responses |-> r, ret |-> NoRet]
       \/ \E t \in TaskIds, r \in AnswerSets(DetailsEndpoints) :
             call = [fn |-> "get_music_details", done |-> FALSE,
                     task_id |-> t, responses |-> r, ret |-> NoRet]
       \/ \E b \in ExtractBodies :
             call = [fn |-> "extract_task_id", done |-> FALSE, body |-> b,
                     ret |-> NoRet]

InitCalls == InitCheck \/ InitFunction

\* the call returns ret after issuing reqs
Return(ret, reqs) ==
    /\ call' = [call EXCEPT !.done = TRUE, !.ret = ret]
    /\ http_log' = reqs
    /\ UNCHANGED <<api_key, generation_status, generated_songs, auto_refresh,
                   run, session_keys, api_reports>>

CallValidate ==
    /\ call.fn = "validate_inputs" /\ ~call.done
    /\ Return(validate_form(call.form), <<>>)

CallGenerate ==
    /\ call.fn = "generate_music" /\ ~call.done
    /\ \E g \in {generate_music(call.form.prompt, call.form.style,
                     call.form.title, call.form.custom_mode,
                     call.form.instrumental, call.form.model,
                     call.form.negative_tags, call.response)} :
          Return(g.ret, g.reqs)

CallStatus ==
    /\ call.fn = "get_generation_status" /\ ~call.done
    /\ \E g \in {get_generation_status(call.task_id, call.responses)} :
          Return(g.ret, g.reqs)

CallDetails ==
    /\ call.fn = "get_music_details" /\ ~call.done
    /\ \E g \in {get_music_details(call.task_id, call.responses)} :
          Return(g.ret, g.reqs)

CallExtract ==
    /\ call.fn = "extract_task_id" /\ ~call.done
    /\ Return(extract_task_id(call.body), <<>>)

\* check_and_update_status() on the session: the entries and the songs are
\* changed in place, the return value is `updated` (an exception may end it)
CallCheck ==
    /\ call.fn = "check_and_update_status" /\ ~call.done
    /\ \E s \in {check_and_update_status(Session, call.views)} :
          /\ generation_status' = s.gs
          /\ generated_songs' = s.songs
          /\ http_log' = s.log
          /\ call' = [call EXCEPT !.done = TRUE,
                                  !.ret = [updated |-> s.updated,
                                           raised |-> s.raised]]
          /\ UNCHANGED <<api_key, auto_refresh, run, session_keys, api_reports>>

NextCalls ==
    \/ CallCheck
    \/ CallValidate
    \/ CallGenerate
    \/ CallStatus
    \/ CallDetails
    \/ CallExtract

SpecCalls == InitCalls /\ [][NextCalls]_vars

(***************************************************************************)
(* Properties                                                              *)
(***************************************************************************)
\* the endpoints of a call that answer HTTP 200 with a body that decodes
GoodEndpoints(responses) ==
    {i \in DOMAIN responses :
        /\ ~responses[i].exc
        /\ responses[i].status_code = 200
        /\ responses[i].json.parseable}

Least(S) == CHOOSE i \in S : \A j \in S : i <= j

\* the log of GET requests to the first n status endpoints, in list order
ProbedInOrder(n) ==
    /\ Len(http_log) = n
    /\ \A k \in 1..n : /\ http_log[k].method = "GET"
                       /\ http_log[k].url = StatusEndpoints[k]

StatusCallDone == call.fn = "get_generation_status" /\ call.done

\* C1: get_generation_status probes its 9 endpoints in list order; it returns
\* success with endpoint_used the first endpoint that answers 200 with a
\* decodable body and sends nothing after it; it returns failure only after
\* all 9 were tried and none answered so.
C1_FirstGoodEndpoint ==
    StatusCallDone =>
        IF GoodEndpoints(call.responses) # {}
        THEN /\ call.ret.success
             /\ call.ret.endpoint_used =
                    StatusEndpoints[Least(GoodEndpoints(call.responses))]
             /\ ProbedInOrder(Least(GoodEndpoints(call.responses)))
        ELSE /\ ~call.ret.success
             /\ ProbedInOrder(Len(StatusEndpoints))

\* C1 witness: the call succeeded at the third endpoint after a network error
\* and a 200 that did not decode, with a later endpoint that would have answered
C1_Witness ==
    /\ StatusCallDone
    /\ call.ret.success
    /\ Least(GoodEndpoints(call.responses)) = 3
    /\ Cardinality(GoodEndpoints(call.responses)) > 1
    /\ \E i \in 1..2 : call.responses[i].exc
    /\ \E i \in 1..2 : call.responses[i].status_code = 200

ApiCallDone ==
    call.fn \in {"generate_music", "get_generation_status", "get_music_details"}
    /\ call.done

\* did the API call fail: a network exception, a non-200 answer or a body that
\* does not decode (for the probing calls: at every endpoint)
ApiCallFailed ==
    IF call.fn = "generate_music"
    THEN \/ call.response.exc
         \/ call.response.status_code # 200
         \/ ~call.response.json.parseable
    ELSE GoodEndpoints(call.responses) = {}

\* C2 as claimed: every failed API call gives success = false with an error
\* string, for generate_music, get_generation_status and get_music_details.
C2_FailureGivesFalse ==
    (ApiCallDone /\ ApiCallFailed) =>
        /\ ~call.ret.success
        /\ "error" \in DOMAIN call.ret

\* C2 as amended: the two probing calls give success = false with an error
\* string exactly when no endpoint answered 200 with a decodable body;
\* generate_music gives success = false with an error string on a network
\* exception or a body that does not decode, and otherwise success = true with
\* the status code of the answer, be it 200 or not.
C2_FailureGivesFalseOrStatus ==
    ApiCallDone =>
        IF call.fn = "generate_music"
        THEN IF call.response.exc \/ ~call.response.json.parseable
             THEN ~call.ret.success /\ "error" \in DOMAIN call.ret
             ELSE /\ call.ret.success
                  /\ call.ret.status_code = call.response.status_code
        ELSE IF ApiCallFailed
             THEN ~call.ret.success /\ "error" \in DOMAIN call.ret
             ELSE call.ret.success /\ call.ret.status_code = 200

\* C2 witness: generate_music got a non-200 answer with a decodable body and
\* returned success = true with that status
C2_Witness ==
    /\ call.fn = "generate_music" /\ call.done
    /\ ~call.response.exc
    /\ call.response.status_code = 500
    /\ call.ret.success
    /\ call.ret.status_code = 500

\* C3 as claimed: once the entry under a key is complete or error, no step
\* changes the status stored under that key.
C3_FinalStatusKept ==
    [][\A i \in 1..Len(generation_status) :
          generation_status[i].status \in {"complete", "error"} =>
              \E j \in 1..Len(generation_status') :
                  /\ generation_status'[j].key = generation_status[i].key
                  /\ generation_status'[j].status = generation_status[i].status
      ]_vars

\* C4 as claimed: every element of generated_songs has a non-empty audio_url.
C4_EverySongHasAudio ==
    \A i \in 1..Len(generated_songs) : Truthy(generated_songs[i].audio_url)

\* the candidates of the claim, in its order: the three keys at the top
\* level, in the object under data, in the first element of a list under data
ClaimedCandidates(rd) ==
    IF ~rd.isdict THEN <<>>
    ELSE <<rd.task_id, rd.taskId, rd.id>>
         \o (IF rd.data.shape = "dict"
             THEN <<rd.data.items[1].task_id, rd.data.items[1].taskId,
                    rd.data.items[1].id>>
             ELSE <<>>)
         \o (IF rd.data.shape = "list" /\ Len(rd.data.items) > 0
                /\ rd.data.items[1].isdict
             THEN <<rd.data.items[1].task_id, rd.data.items[1].taskId,
                    rd.data.items[1].id>>
             ELSE <<>>)

\* the first non-empty candidate, None when there is none
RECURSIVE FirstNonEmpty(_)
FirstNonEmpty(vals) ==
    IF vals = <<>> THEN None
    ELSE IF Truthy(Head(vals)) THEN Head(vals)
    ELSE FirstNonEmpty(Tail(vals))

\* C5 as claimed: the extraction never raises and returns the first non-empty
\* candidate, none (nothing true) when every candidate is empty, whatever the
\* shape of the response.
C5_ExtractionTotal ==
    (call.fn = "extract_task_id" /\ call.done) =>
        /\ call.ret.raised = NoException
        /\ IF Truthy(FirstNonEmpty(ClaimedCandidates(call.body)))
           THEN call.ret.task_id = FirstNonEmpty(ClaimedCandidates(call.body))
           ELSE ~Truthy(call.ret.task_id)

\* C6 as claimed: a run that reaches the songs tab with a non-empty
\* generated_songs draws one card per song and ends without an exception.
C6_SongsRendered ==
    (run.ran /\ api_key # "" /\ ~run.rerun /\ generated_songs # <<>>) =>
        /\ run.raised = NoException
        /\ run.cards = Len(generated_songs)

ValidateCallDone == call.fn = "validate_inputs" /\ call.done

\* the prompt limit of the claim
ClaimedPromptLimit(custom_mode, model) ==
    IF ~custom_mode THEN 400
    ELSE IF model \in {"V3_5", "V4"} THEN 3000
    ELSE 5000

\* the errors reported for a field
ErrorsOf(errors, field) == {k \in 1..Len(errors) : errors[k].field = field}

\* C7: validate_inputs reports a prompt-length error exactly when the prompt
\* is longer than 400 (non-custom mode), 3000 (custom mode, V3_5 and V4) or
\* 5000 (custom mode, V4_5), naming that limit; in custom mode with the
\* instrumental flag the prompt gives no error at all, whatever it is.
C7_PromptLimit ==
    ValidateCallDone =>
        LET f == call.form
            errors == call.ret.errors
            too_long == {k \in ErrorsOf(errors, "prompt") :
                            errors[k].kind = "too_long"}
        IN  IF f.custom_mode /\ f.instrumental
            THEN ErrorsOf(errors, "prompt") = {}
            ELSE /\ (too_long # {}) <=>
                        (f.prompt.len > ClaimedPromptLimit(f.custom_mode, f.model))
                 /\ \A k \in too_long :
                        errors[k].limit = ClaimedPromptLimit(f.custom_mode, f.model)
                 /\ Cardinality(too_long) <= 1

\* C7 witness: V4 custom mode, a non-blank prompt of 3001 characters is
\* rejected for its length
C7_Witness ==
    /\ ValidateCallDone
    /\ call.form.model = "V4" /\ call.form.custom_mode /\ ~call.form.instrumental
    /\ call.form.prompt = Str(3001, FALSE)
    /\ \E k \in 1..Len(call.ret.errors) :
          call.ret.errors[k] = Err("prompt", "too_long", 3000)

\* the style limit of the claim
ClaimedStyleLimit(model) == IF model \in {"V3_5", "V4"} THEN 200 ELSE 1000

\* C8: in custom mode there is exactly one style error when the style is
\* blank or longer than 200 (V3_5, V4) or 1000 (V4_5), exactly one title error
\* when the title is blank or longer than 80, and none otherwise; in
\* non-custom mode style and title give no error; the boolean returned is
\* true exactly when the error list is empty.
C8_StyleTitleErrors ==
    ValidateCallDone =>
        LET f == call.form
            errors == call.ret.errors
            bad_style == f.style.blank \/ f.style.len > ClaimedStyleLimit(f.model)
            bad_title == f.title.blank \/ f.title.len > 80
        IN  /\ Cardinality(ErrorsOf(errors, "style")) =
                  (IF f.custom_mode /\ bad_style THEN 1 ELSE 0)
            /\ Cardinality(ErrorsOf(errors, "title")) =
                  (IF f.custom_mode /\ bad_title THEN 1 ELSE 0)
            /\ call.ret.is_valid <=> (errors = <<>>)

\* C8 witness: custom mode, a style of white space longer than the limit and a
\* title of 81 characters give one error each
C8_Witness ==
    /\ ValidateCallDone
    /\ call.form.custom_mode
    /\ call.form.style.blank
    /\ call.form.style.len > ClaimedStyleLimit(call.form.model)
    /\ call.form.title = Str(81, FALSE)
    /\ Cardinality(ErrorsOf(call.ret.errors, "style")) = 1
    /\ Cardinality(ErrorsOf(call.ret.errors, "title")) = 1
    /\ ~call.ret.is_valid

\* the POST /generate requests of the last run
GenerateRequests ==
    {k \in 1..Len(http_log) :
        http_log[k].method = "POST" /\ http_log[k].url = "/generate"}

\* C9 as claimed: the prompt, style and title of every generate request are
\* within the limits validate_inputs enforces for the model and mode of the
\* request; a title sent in custom mode has at most 80 characters.
C9_BodyWithinLimits ==
    \A k \in GenerateRequests :
        LET body == http_log[k].body
        IN  /\ "prompt" \in DOMAIN body =>
                   body.prompt.len <= ClaimedPromptLimit(body.customMode, body.model)
            /\ "style" \in DOMAIN body =>
                   body.style.len <= ClaimedStyleLimit(body.model)
            /\ "title" \in DOMAIN body => body.title.len <= 80

\* C10 as claimed, for a run in which only the form handler sends requests
\* (auto-refresh unticked): a valid submission sends exactly two POST /generate
\* requests; an invalid one sends none and leaves generation_status and
\* generated_songs as they were.
C10_TwoRequestsIffValid ==
    [][(run'.ran /\ run'.button = "generate" /\ ~auto_refresh') =>
          IF run'.valid
          THEN /\ Len(http_log') = 2
               /\ \A k \in 1..2 : /\ http_log'[k].method = "POST"
                                  /\ http_log'[k].url = "/generate"
          ELSE /\ http_log' = <<>>
               /\ generation_status' = generation_status
               /\ generated_songs' = generated_songs
      ]_vars

\* C11 as claimed: all_attempts of a get_generation_status result holds one
\* entry per request issued, in request order: 9 on failure; on a success at
\* the endpoint of 0-based index k exactly k + 1 entries, the last one the
\* successful endpoint with success = true and every earlier one with
\* success = false.
C11_AttemptsPerRequest ==
    StatusCallDone =>
        LET attempts == call.ret.all_attempts
        IN  /\ Len(attempts) = Len(http_log)
            /\ \A k \in 1..Len(attempts) :
                   attempts[k].endpoint = http_log[k].url
            /\ IF call.ret.success
               THEN /\ attempts[Len(attempts)].endpoint = call.ret.endpoint_used
                    /\ StatusEndpoints[Len(attempts)] = call.ret.endpoint_used
                    /\ attempts[Len(attempts)].success
                    /\ \A k \in 1..(Len(attempts) - 1) : ~attempts[k].success
               ELSE Len(attempts) = Len(StatusEndpoints)

CheckCallDone == call.fn = "check_and_update_status" /\ call.done

\* the entries of gs the status check looks at: processing, with a task id
Eligible(gs) ==
    {i \in 1..Len(gs) : gs[i].status = "processing" /\ Truthy(gs[i].task_id)}

\* the log is: the first n GET paths in list order, then the first m POST paths
GetsThenPosts(log, n, m) ==
    /\ Len(log) = n + m
    /\ \A k \in 1..n : log[k].method = "GET" /\ log[k].url = StatusEndpoints[k]
    /\ \A k \in 1..m : /\ log[n + k].method = "POST"
                        /\ log[n + k].url = DetailsEndpoints[k]

\* the requests the claim allows for a task whose endpoints answer as in view
ClaimedRequests(log, view) ==
    IF GoodEndpoints(view.get) # {}
    THEN GetsThenPosts(log, Least(GoodEndpoints(view.get)), 0)
    ELSE IF GoodEndpoints(view.post) # {}
    THEN GetsThenPosts(log, Len(StatusEndpoints), Least(GoodEndpoints(view.post)))
    ELSE GetsThenPosts(log, Len(StatusEndpoints), Len(DetailsEndpoints))

\* C12: the status check of one processing entry sends at most 18 requests,
\* one after another: the GET probes in list order up to the first one that
\* is accepted (at most 9), and POST fallbacks (at most 3, up to the first one
\* accepted) only when all 9 GET probes failed; nothing is sent after the
\* first accepted response.
C12_RequestsOfOneCheck ==
    (CheckCallDone /\ api_key # "" /\ Cardinality(Eligible(call.gs)) = 1) =>
        LET i == CHOOSE j \in Eligible(call.gs) : TRUE
        IN  /\ Len(http_log) <= 18
            /\ \A k \in 1..Len(http_log) : http_log[k].body = call.gs[i].task_id
            /\ ClaimedRequests(http_log, call.views[call.gs[i].task_id])

\* C12 witness: one processing entry, no GET path answered and the last POST
\* path did: 9 GET and 3 POST requests were sent and the entry is complete
C12_Witness ==
    /\ CheckCallDone /\ api_key # ""
    /\ Eligible(call.gs) = {1} /\ Len(call.gs) = 1
    /\ GoodEndpoints(call.views[call.gs[1].task_id].get) = {}
    /\ Least(GoodEndpoints(call.views[call.gs[1].task_id].post)) = Len(DetailsEndpoints)
    /\ Len(http_log) = Len(StatusEndpoints) + Len(DetailsEndpoints)
    /\ generation_status[1].status = "complete"

\* a step in which check_and_update_status is the only code that writes the
\* session: a direct call of it, or a script run the form was not submitted in
CheckStep ==
    \/ call.fn = "check_and_update_status" /\ ~call.done /\ call'.done
    \/ ~run.ran /\ run'.ran /\ run'.button # "generate"

\* C13: check_and_update_status adds and removes no key of generation_status
\* and leaves every entry as it was unless its status is processing and it
\* has a task id; an entry stored without a task id stays processing.
C13_CheckFrame ==
    [][CheckStep =>
          /\ Len(generation_status') = Len(generation_status)
          /\ \A i \in 1..Len(generation_status) :
                 /\ generation_status'[i].key = generation_status[i].key
                 /\ generation_status'[i].task_id = generation_status[i].task_id
                 /\ i \notin Eligible(generation_status) =>
                        generation_status'[i] = generation_status[i]
      ]_vars

\* C13 witness: a status check marked one entry complete and left the entry
\* that has no task id processing
C13_Witness ==
    /\ \/ CheckCallDone
       \/ run.ran /\ run.button = "refresh"
    /\ http_log # <<>>
    /\ \E i, j \in 1..Len(generation_status) :
          /\ generation_status[i].status = "complete"
          /\ generation_status[j].status = "processing"
          /\ ~Truthy(generation_status[j].task_id)

\* the body the status check of entry e works on: that of the first GET path
\* that answers 200 with a body that decodes
GetBody(e) ==
    call.views[e.task_id].get[Least(GoodEndpoints(call.views[e.task_id].get))].json

GetAnswered(e) == GoodEndpoints(call.views[e.task_id].get) # {}
PostAnswered(e) == GoodEndpoints(call.views[e.task_id].post) # {}

\* no song of the payload has an audio URL
NoAudio(body) ==
    \A k \in 1..Len(body.data.items) : ~Truthy(body.data.items[k].audio_url)

\* C14: check_and_update_status sets an entry to error only when a GET probe
\* succeeded and the code of its payload is not 200, and then error_message
\* is the msg of the payload, 'Unknown error' when it has none; a GET payload
\* with code 200 and no audio URL leaves the entry processing; after failed
\* GET probes the entry can become complete (when a POST path answered) but
\* never error; when GET probes and POST fallback all fail the entry is left
\* as it was.
C14_ErrorOnlyFromGet ==
    CheckCallDone =>
        \A i \in 1..Len(call.gs) :
            LET before == call.gs[i]
                after == generation_status[i]
                checked == api_key # "" /\ i \in Eligible(call.gs)
            IN  /\ (after.status = "error" /\ before.status # "error") =>
                       /\ checked
                       /\ GetAnswered(before)
                       /\ GetBody(before).code # 200
                       /\ after.error_message =
                              (IF GetBody(before).msg = None THEN "Unknown error"
                               ELSE GetBody(before).msg)
                /\ (checked /\ GetAnswered(before)
                       /\ GetBody(before).code = 200 /\ NoAudio(GetBody(before))) =>
                       after = before
                /\ (checked /\ ~GetAnswered(before)) =>
                       /\ after.status \in {"processing", "complete"}
                       /\ after.status = "complete" => PostAnswered(before)
                /\ (checked /\ ~GetAnswered(before) /\ ~PostAnswered(before)) =>
                       after = before

\* C14 witness: a GET probe answered with code 500 and no msg, and the entry
\* is now error with the message 'Unknown error'
C14_Witness ==
    /\ CheckCallDone
    /\ \E i \in 1..Len(call.gs) :
          /\ api_key # "" /\ i \in Eligible(call.gs)
          /\ GetAnswered(call.gs[i])
          /\ GetBody(call.gs[i]) = FailedNoMsgBody
          /\ generation_status[i].status = "error"
          /\ generation_status[i].error_message = "Unknown error"

GenerateCallDone == call.fn = "generate_music" /\ call.done

\* the keys the claim gives the body of a generate request
ClaimedBodyKeys(custom_mode, instrumental, negative_tags) ==
    {"customMode", "instrumental", "model", "callBackUrl"}
    \cup (IF custom_mode /\ instrumental THEN {} ELSE {"prompt"})
    \cup (IF custom_mode THEN {"style", "title"} ELSE {})
    \cup (IF negative_tags.len > 0 THEN {"negativeTags"} ELSE {})

\* C15: the body generate_music sends always holds customMode, instrumental,
\* model and callBackUrl; prompt unless custom_mode and instrumental are both
\* set; style and title exactly in custom mode; negativeTags exactly when
\* negative_tags is not empty.  And validate_inputs accepts a blank prompt
\* only for inputs whose body has no prompt key.
C15_BodyKeys ==
    /\ GenerateCallDone =>
           /\ Len(http_log) = 1
           /\ DOMAIN http_log[1].body =
                  ClaimedBodyKeys(call.form.custom_mode, call.form.instrumental,
                                  call.form.negative_tags)
           /\ \A k \in DOMAIN http_log[1].body \ {"callBackUrl"} :
                  http_log[1].body[k] =
                      (IF k = "customMode" THEN call.form.custom_mode
                       ELSE IF k = "negativeTags" THEN call.form.negative_tags
                       ELSE call.form[k])
    /\ (ValidateCallDone /\ call.ret.is_valid /\ call.form.prompt.blank) =>
           "prompt" \notin
               DOMAIN generate_payload(call.form.prompt, call.form.style,
                          VersionTitle(call.form.title), call.form.custom_mode,
                          call.form.instrumental, call.form.model,
                          call.form.negative_tags)

\* C15 witness: a custom instrumental request with tags to exclude was sent
\* without a prompt key
C15_Witness ==
    /\ GenerateCallDone
    /\ call.form.custom_mode /\ call.form.instrumental
    /\ call.form.negative_tags.len > 0
    /\ "prompt" \notin DOMAIN http_log[1].body
    /\ "negativeTags" \in DOMAIN http_log[1].body

\* the entry stored under song_<key> is processing and has a task id
ProcessingTask(key) ==
    \E i \in Eligible(generation_status) : generation_status[i].key = key

CompleteEntry(key) ==
    \E i \in 1..Len(generation_status) :
        /\ generation_status[i].key = key
        /\ generation_status[i].status = "complete"

\* C16 as claimed: when the page rests with auto-refresh ticked and a
\* processing entry with a task id whose task the API reports complete, that
\* entry is eventually marked complete, or at least the wait-then-check cycle
\* goes on: another script run takes place or is owed.  (A run the user
\* starts counts too, so only a page that rests for ever refutes this.)
C16_AutoRefreshCompletes ==
    \A key \in 1..(MaxSongs + 2) :
        (/\ ~run.ran /\ ~run.rerun
         /\ auto_refresh /\ api_reports = "complete" /\ ProcessingTask(key))
            ~> (CompleteEntry(key) \/ ~auto_refresh \/ run.ran \/ run.rerun)

\* C17 as claimed: when the last run drew "Add to Generated Songs" for the
\* completed songs a manual check found, the run a click on that button
\* starts appends exactly these songs to generated_songs (auto-refresh
\* unticked, so that nothing else writes the list).
C17_AddAppendsFound ==
    [][(~run.ran /\ run.found # <<>> /\ run'.ran /\ run'.button = "add"
          /\ ~auto_refresh') =>
          generated_songs' = generated_songs \o run.found
      ]_vars

\* C18 as claimed: the entries of generation_status are as many as the
\* generate requests answered with HTTP 200 so far: a submission adds one
\* entry for each such request of its run, under a key that was not there,
\* with status processing, and leaves the earlier entries as they were
\* (submissions whose task-id extraction raised are left aside).
C18_OneEntryPerGeneration ==
    [][(~run.ran /\ run'.ran /\ run'.button = "generate" /\ ~auto_refresh'
          /\ run'.raised # "AttributeError") =>
          /\ Len(generation_status') = Len(generation_status) + run'.generated
          /\ \A i \in 1..Len(generation_status) :
                 generation_status'[i] = generation_status[i]
          /\ \A i \in (Len(generation_status) + 1)..Len(generation_status') :
                 generation_status'[i].status = "processing"
      ]_vars

\* C19: a script run that ends with the stored API key still empty sends no
\* HTTP request and leaves generation_status and generated_songs as they
\* were; and initialize_session_state at the start of a run resets nothing
\* that exists: a run in which no button was clicked (auto-refresh unticked)
\* keeps the three values, and in every run a stored key stays stored, no
\* entry disappears and generated_songs only grows.
C19_EmptyKeyAndNoReset ==
    [][(~run.ran /\ run'.ran) =>
          /\ api_key' = "" =>
                 /\ http_log' = <<>>
                 /\ generation_status' = generation_status
                 /\ generated_songs' = generated_songs
          /\ (session_keys = SessionKeys /\ run'.button = "none"
                 /\ ~auto_refresh') =>
                 /\ generation_status' = generation_status
                 /\ generated_songs' = generated_songs
                 /\ api_key # "" => api_key' = api_key
          /\ session_keys = SessionKeys =>
                 /\ session_keys' = SessionKeys
                 /\ api_key # "" => api_key' # ""
                 /\ Len(generation_status') >= Len(generation_status)
                 /\ Len(generated_songs') >= Len(generated_songs)
                 /\ \A i \in 1..Len(generated_songs) :
                        generated_songs'[i] = generated_songs[i]
      ]_vars

\* C19 witness: a script run took place with no API key stored: the session
\* was initialised, main returned early and nothing was sent
C19_Witness ==
    /\ run.ran
    /\ api_key = ""
    /\ session_keys = SessionKeys
    /\ http_log = <<>>

====
